---- MODULE Spec2Model ----
(***************************************************************************)
(* mutablerecords: record types synthesised at run time by RecordMeta,     *)
(* their instances (RecordClass), and CopyRecord.                          *)
(*                                                                         *)
(* Source: src/mutablerecords/records.py.                                  *)
(***************************************************************************)
EXTENDS Integers, Sequences, FiniteSets, TLC

\* ------------------------------------------------------------------------
\* Bounds of the model.
\* ------------------------------------------------------------------------
\* Number of record types declared in one run.
MaxTypes == 3
\* Length of a required_attributes sequence given in one declaration.
MaxReq == 1
\* Number of objects on the heap before a constructor call.
MaxObjs == 3
\* Length of a required_attributes sequence given to the factory, and number
\* of positional arguments of a constructor call, where constructor calls
\* are explored.
MaxCtorReq == 3
MaxArgs == 3
\* Number of record types declared in a run where the instances' operations
\* are explored.
MaxHeapTypes == 2

\* ------------------------------------------------------------------------
\* Values: every Python value of the model is a record [k, v].
\*   k = "int"      the integer v
\*   k = "callable" the builtin `list` (a zero-argument factory)
\*   k = "ref"      the object at heap[v] (a list or a record instance)
\* ------------------------------------------------------------------------
IntV(n) == [k |-> "int", v |-> n]
ListFactory == [k |-> "callable", v |-> 0]
Ref(i) == [k |-> "ref", v |-> i]

\* Field names, in the order a dict of the model iterates over its keys.
NameOrder == <<"a", "b", "c">>
Range(s) == {s[i] : i \in 1..Len(s)}
FieldNames == Range(NameOrder)

\* dicts keyed by field names are functions on a subset of FieldNames;
\* Dicts(N, V) are the dicts with keys in N and values in V.
Dicts(N, V) == UNION {[S -> V] : S \in SUBSET N}
EmptyDict == [n \in {} |-> IntV(0)]
\* dict.update
DictUpdate(d, e) ==
  [n \in (DOMAIN d) \cup (DOMAIN e) |-> IF n \in DOMAIN e THEN e[n] ELSE d[n]]
\* d[n] = v
DictSet(d, n, v) == [m \in (DOMAIN d) \cup {n} |-> IF m = n THEN v ELSE d[m]]
\* d restricted to the keys outside S (dict.pop of every key of S)
DictPop(d, S) == [n \in (DOMAIN d) \ S |-> d[n]]
\* tuple(d.keys())
Keys(d) == SelectSeq(NameOrder, LAMBDA n : n \in DOMAIN d)

\* Sequences over S of length at most n.
SeqsUpTo(S, n) == UNION {[1..k -> S] : k \in 0..n}

\* list.remove(x): the first occurrence of x leaves the list.
RemoveFirst(s, x) ==
  LET i == CHOOSE i \in 1..Len(s) : s[i] = x /\ \A j \in 1..(i - 1) : s[j] # x
  IN  SubSeq(s, 1, i - 1) \o SubSeq(s, i + 1, Len(s))

RECURSIVE RemoveEach(_, _)
RemoveEach(s, S) ==
  IF S = {} THEN s
  ELSE LET x == CHOOSE x \in S : TRUE
       IN  RemoveEach(RemoveFirst(s, x), S \ {x})

\* ------------------------------------------------------------------------
\* Types.  Declared record types are numbered 1, 2, ... in declaration
\* order; the three classes below them have fixed numbers.
\* ------------------------------------------------------------------------
RecordClassT == 0
HashableRecordClassT == -1
ObjectT == -2
NoType == -3

VARIABLES
  types,   \* the record types declared so far (a sequence of type records)
  decl,    \* the last declaration: its arguments and its outcome
  heap,    \* the objects created so far (a sequence of lists and instances)
  last,    \* the last operation on instances: its arguments and its outcome
  python   \* major version of the interpreter the package runs under

vars == <<types, decl, heap, last, python>>

\* cls.__mro__
MroOf(ts, t) ==
  IF t > 0 THEN ts[t].mro
  ELSE IF t = RecordClassT THEN <<RecordClassT, ObjectT>>
  ELSE IF t = HashableRecordClassT
       THEN <<HashableRecordClassT, RecordClassT, ObjectT>>
  ELSE <<ObjectT>>

\* issubclass(t, u)
IsSubtype(ts, t, u) == u \in Range(MroOf(ts, t))

\* The class whose instance layout t uses: the nearest class in t's chain
\* that adds slots of its own.  RecordClass and HashableRecordClass have
\* __slots__ = () and add none.
SolidOf(ts, t) == IF t > 0 THEN ts[t].solid ELSE ObjectT

\* Instances of t have a __dict__ beside their slots: HashableRecordClass
\* declares no __slots__, so every class below it has one.
HasDict(ts, t) == IsSubtype(ts, t, HashableRecordClassT)

\* base.required_attributes, base.optional_attributes
ReqOf(ts, t) == IF t > 0 THEN ts[t].req ELSE <<>>
OptOf(ts, t) == IF t > 0 THEN ts[t].opt ELSE EmptyDict

\* C3 linearisation's merge; <<NoType>> ends the result when no head is
\* acceptable (TypeError: cannot create a consistent MRO).
RECURSIVE C3Merge(_)
C3Merge(seqs) ==
  LET ne == SelectSeq(seqs, LAMBDA s : Len(s) > 0)
      good(i) == \A j \in 1..Len(ne) : Head(ne[i]) \notin Range(Tail(ne[j]))
  IN  IF Len(ne) = 0 THEN <<>>
      ELSE IF \A i \in 1..Len(ne) : ~good(i) THEN <<NoType>>
      ELSE LET i == CHOOSE i \in 1..Len(ne) :
                      good(i) /\ \A j \in 1..(i - 1) : ~good(j)
               h == Head(ne[i])
               rest == [j \in 1..Len(ne) |->
                          IF Head(ne[j]) = h THEN Tail(ne[j]) ELSE ne[j]]
           IN  <<h>> \o C3Merge(rest)

\* The winner of type.__new__'s search for the best base among bases[i..],
\* NoType when two bases' layouts are unrelated (TypeError: multiple bases
\* have instance lay-out conflict).
RECURSIVE BestBase(_, _, _, _)
BestBase(ts, bases, i, winner) ==
  IF i > Len(bases) THEN winner
  ELSE LET cand == SolidOf(ts, bases[i])
       IN  IF IsSubtype(ts, winner, cand) THEN BestBase(ts, bases, i + 1, winner)
           ELSE IF IsSubtype(ts, cand, winner) THEN BestBase(ts, bases, i + 1, cand)
           ELSE NoType

\* type.__new__(cls, name, bases, attrs) for a class with the given
\* __slots__ and the class attributes `body`: the new type record, or the
\* error the interpreter raises.
TypeNew(ts, bases, req, opt, body) ==
  LET id == Len(ts) + 1
      slots == req \o Keys(opt)
      winner == BestBase(ts, bases, 2, SolidOf(ts, bases[1]))
      merged == C3Merge([i \in 1..(Len(bases) + 1) |->
                           IF i <= Len(bases) THEN MroOf(ts, bases[i]) ELSE bases])
  IN  IF winner = NoType THEN [err |-> "TypeError"]
      ELSE IF Range(slots) \cap DOMAIN body # {} THEN [err |-> "ValueError"]
      ELSE IF Cardinality(Range(bases)) # Len(bases) \/ NoType \in Range(merged)
           THEN [err |-> "TypeError"]
      ELSE [err |-> "ok",
            type |-> [req |-> req, opt |-> opt, slots |-> slots, bases |-> bases,
                      mro |-> <<id>> \o merged,
                      solid |-> IF Len(slots) > 0 THEN id ELSE winner]]

\* ------------------------------------------------------------------------
\* RecordMeta.__new__
\* ------------------------------------------------------------------------
\* The class statement's attrs: the declared required_attributes, the
\* declared optional_attributes and the other class attributes (`body`).
Attrs(req, opt, body) ==
  [required_attributes |-> req, optional_attributes |-> opt, body |-> body]

\* The state of the loop over the bases before its first iteration.
MetaStart(attrs) ==
  [err |-> "ok", req |-> <<>>, opt |-> attrs.optional_attributes,
   body |-> attrs.body]

\* The optional attributes collected so far that the base declares too.
OptionalRepeatsNever(opt, base_opt) == {}
OptionalRepeats(opt, base_opt) == (DOMAIN opt) \cap (DOMAIN base_opt)

\* One iteration of the loop over the bases.
MetaStep(ts, st, base) ==
  IF st.err # "ok" THEN st
  ELSE IF Range(st.req) \cap Range(ReqOf(ts, base)) # {}
       THEN [st EXCEPT !.err = "AssertionError"]
  ELSE IF OptionalRepeats(st.opt, OptOf(ts, base)) # {}
       THEN [st EXCEPT !.err = "AssertionError"]
  ELSE LET req1 == st.req \o ReqOf(ts, base)
           opt1 == DictUpdate(st.opt, OptOf(ts, base))
           \* required attributes of the base that the class body provides
           prov1 == Range(ReqOf(ts, base)) \cap DOMAIN st.body
           req2 == RemoveEach(req1, prov1)
           opt2 == DictUpdate(opt1, [n \in prov1 |-> st.body[n]])
           body2 == DictPop(st.body, prov1)
           \* optional attributes of the base that the class body overrides
           prov2 == (DOMAIN OptOf(ts, base)) \cap DOMAIN body2
           opt3 == DictUpdate(opt2, [n \in prov2 |-> body2[n]])
           body3 == DictPop(body2, prov2)
       IN  [err |-> "ok", req |-> req2, opt |-> opt3, body |-> body3]

RECURSIVE MetaLoop(_, _, _, _)
MetaLoop(ts, st, bases, i) ==
  IF i > Len(bases) THEN st
  ELSE MetaLoop(ts, MetaStep(ts, st, bases[i]), bases, i + 1)

\* RecordMeta(name, bases, attrs): [err |-> "ok", type |-> the new type], or
\* [err |-> the exception raised].
RecordMeta_new(ts, bases, attrs) ==
  LET st == MetaLoop(ts, MetaStart(attrs), bases, 1)
  IN  IF st.err # "ok" THEN [err |-> st.err]
      ELSE TypeNew(ts, bases, st.req \o attrs.required_attributes, st.opt,
                   st.body)

\* Record(cls_name, required_attributes, optional_attributes)
Record(ts, req, opt) ==
  RecordMeta_new(ts, <<RecordClassT>>, Attrs(req, opt, EmptyDict))

\* HashableRecord(cls_name, required_attributes, optional_attributes)
HashableRecord(ts, req, opt) ==
  RecordMeta_new(ts, <<HashableRecordClassT>>, Attrs(req, opt, EmptyDict))

\* ------------------------------------------------------------------------
\* Declarations.
\* ------------------------------------------------------------------------
\* Inputs of a declaration.
DeclNames == {"a", "b"}
DeclReqs == SeqsUpTo(DeclNames, MaxReq)
DeclOpts == Dicts(DeclNames, {IntV(1)})
DeclBodies == Dicts(DeclNames, {IntV(2)})
DeclBases == {bs \in SeqsUpTo(1..MaxTypes, 2) : Len(bs) >= 1}

NoDecl == [kind |-> "none", err |-> "ok"]

\* A declaration that raises leaves every type as it was: whatever the
\* program does after catching the exception, it can do without the failed
\* declaration.  The model therefore stops a run at the first exception.
Running == decl.err = "ok" /\ last.err = "ok"

\* The declaration `kind` with the given bases and attrs ended with `res`.
Declared(kind, bases, attrs, res) ==
  /\ decl' = [kind |-> kind, bases |-> bases, attrs |-> attrs,
              err |-> res.err, id |-> Len(types) + 1]
  /\ types' = IF res.err = "ok" THEN Append(types, res.type) ELSE types

\* X = Record('X', req, opt)
DeclareRecord(reqs, opts) ==
  /\ Running
  /\ Len(types) < MaxTypes
  /\ \E req \in reqs, opt \in opts :
       Declared("Record", <<RecordClassT>>, Attrs(req, opt, EmptyDict),
                Record(types, req, opt))
  /\ UNCHANGED <<heap, last, python>>

\* X = HashableRecord('X', req, opt)
DeclareHashableRecord(reqs, opts) ==
  /\ Running
  /\ Len(types) < MaxTypes
  /\ \E req \in reqs, opt \in opts :
       Declared("HashableRecord", <<HashableRecordClassT>>,
                Attrs(req, opt, EmptyDict), HashableRecord(types, req, opt))
  /\ UNCHANGED <<heap, last, python>>

\* class X(B1, ...): required_attributes = req; optional_attributes = opt;
\* and one class attribute per key of body.
DeclareSubclass(reqs, opts, bodies) ==
  /\ Running
  /\ Len(types) < MaxTypes
  /\ \E bases \in DeclBases, req \in reqs, opt \in opts, body \in bodies :
       /\ \A i \in 1..Len(bases) : bases[i] <= Len(types)
       /\ Declared("class", bases, Attrs(req, opt, body),
                   RecordMeta_new(types, bases, Attrs(req, opt, body)))
  /\ UNCHANGED <<heap, last, python>>

PythonVersions == {2, 3}

NoOp == [op |-> "none", err |-> "ok"]

InitTypes ==
  /\ types = <<>>
  /\ decl = NoDecl
  /\ heap = <<>>
  /\ last = NoOp
  /\ python = 3

NextTypes ==
  \/ DeclareRecord(DeclReqs, DeclOpts)
  \/ DeclareHashableRecord(DeclReqs, DeclOpts)
  \/ DeclareSubclass(DeclReqs, DeclOpts, DeclBodies)

SpecTypes == InitTypes /\ [][NextTypes]_vars

\* ------------------------------------------------------------------------
\* RecordClass.__init__
\* ------------------------------------------------------------------------
\* Objects on the heap: record instances and lists.
RecObj(t, fields) == [kind |-> "rec", type |-> t, fields |-> fields]
ListObj == [kind |-> "list", type |-> ObjectT, fields |-> EmptyDict]

\* for slot, arg in zip(required_attributes, args): setattr(self, slot, arg)
RECURSIVE ZipSet(_, _, _, _)
ZipSet(f, req, args, i) ==
  IF i > Len(req) \/ i > Len(args) THEN f
  ELSE ZipSet(DictSet(f, req[i], args[i]), req, args, i + 1)

\* The loop that sets the defaults, from the i-th optional attribute on:
\* a callable default is called, and `list` returns a new list each time.
RECURSIVE SetDefaults(_, _, _, _, _)
SetDefaults(st, opt, kwargs, ks, i) ==
  IF i > Len(ks) THEN st
  ELSE LET attr == ks[i]
           value == opt[attr]
       IN  IF attr \in DOMAIN kwargs THEN SetDefaults(st, opt, kwargs, ks, i + 1)
           ELSE IF value.k = "callable"
           THEN SetDefaults(
                  [heap |-> Append(st.heap, ListObj),
                   fields |-> DictSet(st.fields, attr, Ref(Len(st.heap) + 1))],
                  opt, kwargs, ks, i + 1)
           ELSE SetDefaults([st EXCEPT !.fields = DictSet(@, attr, value)],
                            opt, kwargs, ks, i + 1)

Min(x, y) == IF x < y THEN x ELSE y

\* The keyword arguments that name a positionally bound required attribute.
ConflictsOffByOne(required_attributes, args, kwargs) ==
  (DOMAIN kwargs) \cap
  Range(SubSeq(required_attributes, 1,
               Min(Len(args), Len(required_attributes)) - 1))
Conflicts(required_attributes, args, kwargs) ==
  (DOMAIN kwargs) \cap
  Range(SubSeq(required_attributes, 1,
               Min(Len(args), Len(required_attributes))))

\* type t called with args and kwargs on heap h:
\* [err |-> "ok", heap |-> the heap with the instance, obj |-> its index], or
\* [err |-> the exception raised, heap |-> h].
RecordClass_init(ts, h, t, args, kwargs) ==
  LET required_attributes == ts[t].req
      conflicts == Conflicts(required_attributes, args, kwargs)
      required_kwargs == (DOMAIN kwargs) \cap Range(required_attributes)
      num_provided == Len(args) + Cardinality(required_kwargs)
      self == Len(h) + 1
      given == DictUpdate(ZipSet(EmptyDict, required_attributes, args, 1), kwargs)
      done == SetDefaults(
                [heap |-> Append(h, RecObj(t, given)), fields |-> given],
                ts[t].opt, kwargs, Keys(ts[t].opt), 1)
  IN  IF Len(args) + Cardinality(DOMAIN kwargs) < Len(required_attributes)
      THEN [err |-> "ValueError", heap |-> h]
      ELSE IF conflicts # {} THEN [err |-> "TypeError: conflict", heap |-> h]
      ELSE IF num_provided # Len(required_attributes)
           THEN [err |-> "TypeError: arguments", heap |-> h]
      \* object.__setattr__ of a name that is no slot, on an instance
      \* without __dict__
      ELSE IF ~HasDict(ts, t) /\ ~((DOMAIN kwargs) \subseteq Range(ts[t].slots))
           THEN [err |-> "AttributeError", heap |-> h]
      ELSE [err |-> "ok", obj |-> self,
            heap |-> [done.heap EXCEPT ![self] = RecObj(t, done.fields)]]

\* ------------------------------------------------------------------------
\* Constructor calls.
\* ------------------------------------------------------------------------
\* Position of a field name in NameOrder.
Pos(n) == CHOOSE i \in 1..Len(NameOrder) : NameOrder[i] = n

\* The arguments of a call are pairwise different integers, so that a field's
\* value tells which argument it came from: the i-th positional argument is
\* 10 + i, the keyword argument n is 20 + Pos(n).
CallArgs == {[i \in 1..k |-> IntV(10 + i)] : k \in 0..MaxArgs}
CallKwargs == {[n \in S |-> IntV(20 + Pos(n))] : S \in SUBSET FieldNames}

\* x = T(*args, **kwargs)
Construct(argss, kwargss) ==
  /\ Running
  /\ Len(heap) < MaxObjs
  /\ \E t \in 1..Len(types), args \in argss, kwargs \in kwargss :
       LET res == RecordClass_init(types, heap, t, args, kwargs)
       IN  /\ heap' = res.heap
           /\ last' = [op |-> "new", type |-> t, args |-> args,
                       kwargs |-> kwargs, err |-> res.err,
                       obj |-> IF res.err = "ok" THEN res.obj ELSE 0,
                       before |-> Len(heap)]
  /\ UNCHANGED <<types, decl, python>>

CtorReqs == SeqsUpTo(FieldNames, MaxCtorReq)
CtorOpts == Dicts(FieldNames, {IntV(1), ListFactory})

InitCtor == InitTypes

NextCtor ==
  \/ Len(types) = 0 /\ DeclareRecord(CtorReqs, CtorOpts)
  \/ Len(types) = 0 /\ DeclareHashableRecord(CtorReqs, CtorOpts)
  \/ Construct(CallArgs, CallKwargs)

SpecCtor == InitCtor /\ [][NextCtor]_vars

\* ------------------------------------------------------------------------
\* Claims about constructor calls (SpecCtor).
\* ------------------------------------------------------------------------
\* The last operation was a constructor call that returned an instance.
Constructed == last.op = "new" /\ last.err = "ok"

\* A callable default's result in field n of instance o is an object no
\* other field of any instance holds.
FreshIn(o, n) ==
  /\ heap[o].fields[n].k = "ref"
  /\ heap[heap[o].fields[n].v].kind = "list"
  /\ \A p \in 1..Len(heap) : \A m \in DOMAIN heap[p].fields :
       (p # o \/ m # n) => heap[p].fields[m] # heap[o].fields[n]

\* No name occurs twice in the slots of type t.
UniqueNames(t) ==
  \A i, j \in 1..Len(types[t].slots) :
    i # j => types[t].slots[i] # types[t].slots[j]

\* What C1 says of the instance o of type t built from args and kwargs.
BuiltAsDeclared(t, o, args, kwargs) ==
  LET T == types[t]
      f == heap[o].fields
  IN  /\ heap[o].kind = "rec" /\ heap[o].type = t
      /\ Range(T.slots) \subseteq DOMAIN f
      /\ \A i \in 1..Len(T.req) :
           IF i <= Len(args) THEN f[T.req[i]] = args[i]
           ELSE T.req[i] \in DOMAIN kwargs /\ f[T.req[i]] = kwargs[T.req[i]]
      /\ \A n \in DOMAIN T.opt :
           IF n \in DOMAIN kwargs THEN f[n] = kwargs[n]
           ELSE IF T.opt[n].k = "callable" THEN FreshIn(o, n)
           ELSE f[n] = T.opt[n]

\* C1: every constructor call that succeeds yields an instance with a value
\* for every declared field, where each required field holds the argument
\* supplied for it, each optional field given as a keyword holds that
\* keyword's value, and each other optional field holds its declared default
\* (a callable default's own fresh result).
C1_ConstructionBindsEveryField ==
  Constructed => BuiltAsDeclared(last.type, last.obj, last.args, last.kwargs)

\* C1 on the types whose field names are pairwise different.
C1_HoldsForUniqueNames ==
  (Constructed /\ UniqueNames(last.type))
    => BuiltAsDeclared(last.type, last.obj, last.args, last.kwargs)

\* Some keyword argument names a required field that a positional argument
\* has already bound.
KeywordRepeatsPositional ==
  /\ last.op = "new"
  /\ \E i \in 1..Min(Len(last.args), Len(types[last.type].req)) :
       types[last.type].req[i] \in DOMAIN last.kwargs

\* C3 as claimed: a call whose keyword argument repeats a positionally
\* bound required field always fails with the conflict TypeError.  (Stated
\* for the types whose field names are pairwise different, where the claim
\* fails already.)
C3_ConflictAlwaysConflictError ==
  (KeywordRepeatsPositional /\ UniqueNames(last.type))
    => last.err = "TypeError: conflict"

\* C3 as amended: such a call always fails and produces no instance; it
\* fails with the ValueError of the argument-count check when positional and
\* keyword arguments together are fewer than the required fields, and with
\* the conflict TypeError otherwise.
C3_ConflictFailsArityFirst ==
  KeywordRepeatsPositional =>
    /\ Len(heap) = last.before
    /\ last.obj = 0
    /\ IF Len(last.args) + Cardinality(DOMAIN last.kwargs)
            < Len(types[last.type].req)
       THEN last.err = "ValueError"
       ELSE last.err = "TypeError: conflict"

\* A call on a type with pairwise different field names, with enough
\* arguments, whose keyword repeats a positional one, was rejected.
C3_Witness ==
  /\ KeywordRepeatsPositional
  /\ UniqueNames(last.type)
  /\ Len(last.args) + Cardinality(DOMAIN last.kwargs) >= Len(types[last.type].req)
  /\ last.err = "TypeError: conflict"

\* ------------------------------------------------------------------------
\* Claims about declarations (SpecTypes).
\* ------------------------------------------------------------------------
\* The last declaration was a class statement / produced a type.
Derivation == decl.kind = "class"
Derived == Derivation /\ decl.err = "ok"

BaseReq(i) == ReqOf(types, decl.bases[i])
BaseOpt(i) == OptOf(types, decl.bases[i])
BaseIdx == 1..Len(decl.bases)

\* C9: no record type has a name twice in its field-name sequence (its
\* required-field sequence followed by its optional-field names).
C9_FieldNamesUnique == \A t \in 1..Len(types) : UniqueNames(t)

\* Two different bases of the last derivation declare the same required
\* field, or the same optional field.
BasesCollide ==
  /\ Derivation
  /\ \E i, j \in BaseIdx :
       /\ i # j /\ decl.bases[i] # decl.bases[j]
       /\ \/ Range(BaseReq(i)) \cap Range(BaseReq(j)) # {}
          \/ (DOMAIN BaseOpt(i)) \cap (DOMAIN BaseOpt(j)) # {}

\* C5: a derivation from bases two of which declare the same required field,
\* or the same optional field, fails and produces no type, whatever the
\* derived type declares.
C5_CollisionAlwaysFails == BasesCollide => decl.err # "ok"

\* C5 on the derivations whose class body supplies no value.
C5_HoldsWithoutBodyValues ==
  (BasesCollide /\ DOMAIN decl.attrs.body = {}) => decl.err # "ok"

\* The class body of the last derivation supplies a value for n, which one
\* of the bases declares as required.
Promoted(n) ==
  /\ Derived
  /\ n \in DOMAIN decl.attrs.body
  /\ \E i \in BaseIdx : n \in Range(BaseReq(i))

\* The bases' required fields, in base-declaration order, from base i on.
RECURSIVE BasesReqFrom(_)
BasesReqFrom(i) ==
  IF i > Len(decl.bases) THEN <<>> ELSE BaseReq(i) \o BasesReqFrom(i + 1)

\* One positional argument for each required field of type t.
AllPositional(t) == [i \in 1..Len(types[t].req) |-> IntV(10 + i)]

\* What C4 says of the promoted field n of the derived type.
PromotedAsClaimed(n) ==
  LET D == types[decl.id]
      call == RecordClass_init(types, <<>>, decl.id, AllPositional(decl.id),
                               EmptyDict)
  IN  /\ n \notin Range(D.req)
      /\ n \in DOMAIN D.opt
      /\ D.opt[n] = decl.attrs.body[n]
      /\ D.req = SelectSeq(BasesReqFrom(1),
                           LAMBDA m : m \notin DOMAIN decl.attrs.body)
                   \o decl.attrs.required_attributes
      /\ call.err = "ok"
      /\ call.heap[call.obj].fields[n] = decl.attrs.body[n]

\* C4: a value the derived type supplies for a base's required field moves
\* the field from the required sequence to the optional mapping with that
\* value as default, the other required fields keep their order, and the
\* derived type constructed without that field holds the default in it.
C4_PromotionRule == \A n \in DeclNames : Promoted(n) => PromotedAsClaimed(n)

\* C4 on the derived types whose field names are pairwise different.
C4_HoldsForUniqueNames ==
  \A n \in DeclNames :
    (Promoted(n) /\ UniqueNames(decl.id)) => PromotedAsClaimed(n)

\* The optional names that a base and the derived type's own
\* optional_attributes both declare.
OwnRepeatsBase ==
  {n \in DOMAIN decl.attrs.optional_attributes :
     \E i \in BaseIdx : n \in DOMAIN BaseOpt(i)}

\* C6 as claimed: every derivation succeeds, its optional mapping has every
\* optional name of the bases and of the derived type, and a name declared by
\* a base and by the derived type's own mapping gets the derived type's
\* default.  (Stated for the derivations in which such a name exists.)
C6_DerivedMappingWins ==
  (Derivation /\ OwnRepeatsBase # {}) =>
    /\ decl.err = "ok"
    /\ \A n \in OwnRepeatsBase :
         /\ n \in DOMAIN types[decl.id].opt
         /\ types[decl.id].opt[n] = decl.attrs.optional_attributes[n]

\* The default of n in the base that declares n as optional.
BaseDefault(n) ==
  LET i == CHOOSE i \in BaseIdx : n \in DOMAIN BaseOpt(i) IN BaseOpt(i)[n]

\* C6 as amended: a derivation in which a base and the derived type's own
\* optional_attributes declare the same name fails with the AssertionError
\* of the clash check; in every derivation that succeeds, the optional
\* mapping holds exactly the bases' optional names, the derived type's own
\* optional names and the promoted names, where a value of the class body
\* for a base's field is the default, else the derived type's own default,
\* else the base's.
C6_UnionOrClash ==
  /\ (Derivation /\ OwnRepeatsBase # {}) => decl.err = "AssertionError"
  /\ Derived =>
       LET D == types[decl.id]
           own == decl.attrs.optional_attributes
           body == decl.attrs.body
           fromBases == UNION {DOMAIN BaseOpt(i) : i \in BaseIdx}
           supplied == {n \in DOMAIN body :
                          \E i \in BaseIdx :
                            n \in Range(BaseReq(i)) \cup DOMAIN BaseOpt(i)}
       IN  /\ DOMAIN D.opt = fromBases \cup (DOMAIN own) \cup supplied
           /\ \A n \in DOMAIN D.opt :
                D.opt[n] = IF n \in supplied THEN body[n]
                           ELSE IF n \in DOMAIN own THEN own[n]
                           ELSE BaseDefault(n)

\* A derivation whose own optional_attributes repeat a base's optional name
\* was rejected by the clash check.
C6_Witness ==
  /\ Derivation /\ OwnRepeatsBase # {}
  /\ decl.err = "AssertionError"

\* ------------------------------------------------------------------------
\* Equality.
\* ------------------------------------------------------------------------
\* RecordMeta.__eq__(cls, other) for two record types.
RecordMeta_eqIdentity(ts, t, u) == t = u
RecordMeta_eq(ts, t, u) ==
  \/ t = u
  \/ /\ ts[t].req = ts[u].req
     /\ ts[t].opt = ts[u].opt

\* v == w for two values, and RecordClass.__eq__ for the instances a and b:
\* "T", "F", or "E" when the comparison never returns (RecursionError).  A
\* comparison nested deeper than the number of pairs of objects compares
\* some pair again, and so runs on for ever; `fuel` counts the nesting left.
RECURSIVE ValueEq(_, _, _, _, _), FieldsEq(_, _, _, _, _, _, _)
RecordClass_eq(ts, h, a, b, fuel) ==
  IF a = b THEN "T"
  ELSE IF ~RecordMeta_eq(ts, h[a].type, h[b].type) THEN "F"
  ELSE FieldsEq(ts, h, a, b, ts[h[a].type].slots, 1, fuel)

\* _isequal_fields: all(...) stops at the first field that differs.
FieldsEq(ts, h, a, b, fields, i, fuel) ==
  IF i > Len(fields) THEN "T"
  ELSE LET e == ValueEq(ts, h, h[a].fields[fields[i]], h[b].fields[fields[i]],
                        fuel)
       IN  IF e = "T" THEN FieldsEq(ts, h, a, b, fields, i + 1, fuel) ELSE e

ValueEq(ts, h, v, w, fuel) ==
  IF v.k # "ref" \/ w.k # "ref" THEN (IF v = w THEN "T" ELSE "F")
  ELSE IF h[v.v].kind # h[w.v].kind THEN "F"
  \* two lists: the lists of the model are empty
  ELSE IF h[v.v].kind = "list" THEN "T"
  ELSE IF v.v = w.v THEN "T"
  ELSE IF fuel = 0 THEN "E"
  ELSE RecordClass_eq(ts, h, v.v, w.v, fuel - 1)

\* a == b on the heap h.
Eq(ts, h, a, b) == RecordClass_eq(ts, h, a, b, Len(h) * Len(h))

\* ------------------------------------------------------------------------
\* CopyRecord.
\* ------------------------------------------------------------------------
\* isinstance(value, RecordClass)
IsRecordValue(h, value) == value.k = "ref" /\ h[value.v].kind = "rec"

\* copy.copy(value) of a value that is no record: a list is copied to a new
\* list, an integer or a function is returned as it is.
CopyPlain(h, value) ==
  IF value.k = "ref"
  THEN [heap |-> Append(h, ListObj), value |-> Ref(Len(h) + 1)]
  ELSE [heap |-> h, value |-> value]

\* CopyRecord(record, **field_overrides) of the instance x on heap h:
\* [err |-> "ok", heap, obj], or [err |-> the exception raised, heap |-> h].
\* A chain of different records is no longer than the heap, so a recursion
\* deeper than `fuel`, the size of the heap at the outermost call, is on a
\* cycle of records and never returns: the interpreter ends it with
\* RecursionError (on Python 2, a RuntimeError of the same meaning).
RECURSIVE CopyRecord(_, _, _, _, _), CopyLoop(_, _, _, _, _)
CopyLoop(ts, st, x, i, fuel) ==
  LET slots == ts[st.heap[x].type].slots
  IN  IF st.err # "ok" \/ i > Len(slots) THEN st
      \* `fields` is field_overrides itself: a field already in it is skipped
      ELSE IF slots[i] \in DOMAIN st.fields THEN CopyLoop(ts, st, x, i + 1, fuel)
      ELSE LET value == st.heap[x].fields[slots[i]]
           IN  IF IsRecordValue(st.heap, value)
               THEN LET r == CopyRecord(ts, st.heap, value.v, EmptyDict, fuel - 1)
                    IN  IF r.err # "ok" THEN [st EXCEPT !.err = r.err]
                        ELSE CopyLoop(ts,
                               [err |-> "ok", heap |-> r.heap,
                                fields |-> DictSet(st.fields, slots[i], Ref(r.obj))],
                               x, i + 1, fuel)
               ELSE LET c == CopyPlain(st.heap, value)
                    IN  CopyLoop(ts,
                          [err |-> "ok", heap |-> c.heap,
                           fields |-> DictSet(st.fields, slots[i], c.value)],
                          x, i + 1, fuel)

CopyRecord(ts, h, x, field_overrides, fuel) ==
  IF fuel = 0 THEN [err |-> "RecursionError", heap |-> h]
  ELSE LET st == CopyLoop(ts, [err |-> "ok", heap |-> h,
                               fields |-> field_overrides], x, 1, fuel)
           new == RecordClass_init(ts, st.heap, h[x].type, <<>>, st.fields)
       IN  IF st.err # "ok" THEN [err |-> st.err, heap |-> h]
           ELSE IF new.err # "ok" THEN [err |-> new.err, heap |-> h]
           ELSE new

\* ------------------------------------------------------------------------
\* __getstate__ and __setstate__.
\* ------------------------------------------------------------------------
\* x.__getstate__()
RecordClass_getstate(ts, h, x) ==
  [attr \in Range(ts[h[x].type].slots) |-> h[x].fields[attr]]

\* y.__setstate__(state): dict.iteritems exists on Python 2 only.
RecordClass_setstate(py, h, y, state) ==
  IF py # 2 THEN [err |-> "AttributeError", heap |-> h]
  ELSE [err |-> "ok",
        heap |-> [h EXCEPT ![y].fields = DictUpdate(@, state)]]

\* ------------------------------------------------------------------------
\* Operations on instances.
\* ------------------------------------------------------------------------
Records(h) == {i \in 1..Len(h) : h[i].kind = "rec"}

\* The values a program writes into a field: an integer or any object.
WriteValues(h) == {IntV(0)} \cup {Ref(i) : i \in 1..Len(h)}

\* x.n = v
SetField ==
  /\ Running
  /\ Len(heap) <= MaxObjs
  /\ \E x \in Records(heap), n \in FieldNames, v \in WriteValues(heap) :
       IF n \in Range(types[heap[x].type].slots) \/ HasDict(types, heap[x].type)
       THEN /\ heap' = [heap EXCEPT ![x].fields[n] = v]
            /\ last' = [op |-> "set", err |-> "ok"]
       ELSE /\ heap' = heap
            /\ last' = [op |-> "set", err |-> "AttributeError"]
  /\ UNCHANGED <<types, decl, python>>

CopyOverrides == Dicts({"a", "c"}, {IntV(30)})

\* y = CopyRecord(x, **overrides)
Copy ==
  /\ Running
  /\ Len(heap) <= MaxObjs
  /\ \E x \in Records(heap), overrides \in CopyOverrides :
       LET res == CopyRecord(types, heap, x, overrides, Len(heap))
       IN  /\ heap' = res.heap
           /\ last' = [op |-> "copy", src |-> x, overrides |-> overrides,
                       err |-> res.err,
                       obj |-> IF res.err = "ok" THEN res.obj ELSE 0,
                       before |-> heap]
  /\ UNCHANGED <<types, decl, python>>

\* y.__setstate__(x.__getstate__()) for another instance y of x's type
Restore ==
  /\ Running
  /\ Len(heap) <= MaxObjs
  /\ \E x \in Records(heap), y \in Records(heap) :
       /\ x # y
       /\ heap[x].type = heap[y].type
       /\ LET state == RecordClass_getstate(types, heap, x)
              res == RecordClass_setstate(python, heap, y, state)
          IN  /\ heap' = res.heap
              /\ last' = [op |-> "restore", src |-> x, dst |-> y,
                          state |-> state, err |-> res.err, before |-> heap]
  /\ UNCHANGED <<types, decl, python>>

HeapReqs == {<<"a">>}
HeapOpts == {EmptyDict, [n \in {"b"} |-> ListFactory], [n \in {"a"} |-> IntV(1)]}
HeapCallArgs == {args \in CallArgs : Len(args) <= 1}
HeapCallKwargs == {EmptyDict}

InitHeap ==
  /\ types = <<>>
  /\ decl = NoDecl
  /\ heap = <<>>
  /\ last = NoOp
  /\ python \in PythonVersions

NextHeap ==
  \/ Len(types) < MaxHeapTypes /\ DeclareRecord(HeapReqs, HeapOpts)
  \/ Len(types) < MaxHeapTypes /\ DeclareSubclass({<<>>}, {EmptyDict}, {EmptyDict})
  \/ Construct(HeapCallArgs, HeapCallKwargs)
  \/ SetField
  \/ Copy
  \/ Restore

SpecHeap == InitHeap /\ [][NextHeap]_vars

\* ------------------------------------------------------------------------
\* Claims about instances (SpecHeap).
\* ------------------------------------------------------------------------
\* The declared fields of the instance x on heap h.
FieldsOf(h, x) == Range(types[h[x].type].slots)

\* Every declared field of a equals the same field of b.
AllFieldsEqual(a, b) ==
  /\ FieldsOf(heap, a) = FieldsOf(heap, b)
  /\ \A n \in FieldsOf(heap, a) :
       ValueEq(types, heap, heap[a].fields[n], heap[b].fields[n],
               Len(heap) * Len(heap)) = "T"

\* C2 as claimed: a == b exactly when a and b are the same object, or have
\* the very same record type and equal fields; instances of two different
\* record types are never equal.
C2_EqualOnlyWithinOneType ==
  \A a, b \in Records(heap) :
    Eq(types, heap, a, b) # "E" =>
      (Eq(types, heap, a, b) = "T"
         <=> (a = b \/ (heap[a].type = heap[b].type /\ AllFieldsEqual(a, b))))

\* The two types declare the same required-field sequence and the same
\* optional-field mapping, defaults included.
SameDeclaration(t, u) ==
  /\ types[t].req = types[u].req
  /\ DOMAIN types[t].opt = DOMAIN types[u].opt
  /\ \A n \in DOMAIN types[t].opt : types[t].opt[n] = types[u].opt[n]

\* C2 as amended: a == b exactly when a and b are the same object, or their
\* types are the same type or declare the same required-field sequence and
\* the same optional-field mapping (type-level equality), and every field of
\* a equals the same field of b; so instances of two different record types
\* are equal when the types' declarations and the fields' values agree.
C2_EqualUpToTypeEquality ==
  \A a, b \in Records(heap) :
    Eq(types, heap, a, b) # "E" =>
      (Eq(types, heap, a, b) = "T"
         <=> (a = b \/ (SameDeclaration(heap[a].type, heap[b].type)
                          /\ AllFieldsEqual(a, b))))

\* Two instances of two different record types are equal.
C2_Witness ==
  \E a, b \in Records(heap) :
    /\ heap[a].type # heap[b].type
    /\ Eq(types, heap, a, b) = "T"

\* The last operation was a CopyRecord call that returned.
Copied == last.op = "copy" /\ last.err = "ok"

\* Object i did not exist before the last operation.
IsNew(i) == i > Len(last.before) /\ i <= Len(heap)

\* v is a copy of the value w that a field held before the call: the same
\* integer, a new list for a list, and for a record a new instance of the
\* same type whose fields are copies of the record's fields.
RECURSIVE IsCopyOf(_, _)
IsCopyOf(v, w) ==
  IF w.k # "ref" THEN v = w
  ELSE /\ v.k = "ref"
       /\ IsNew(v.v)
       /\ heap[v.v].kind = last.before[w.v].kind
       /\ heap[v.v].type = last.before[w.v].type
       /\ heap[v.v].kind = "rec" =>
            \A n \in FieldsOf(heap, v.v) :
              IsCopyOf(heap[v.v].fields[n], last.before[w.v].fields[n])

\* The instance the last CopyRecord call returned is a new instance of x's
\* type, another object than x, in which each overridden field holds the
\* override itself and each other field a copy of x's value (a clone, at
\* every depth, for a record); with no overrides it is equal to x; and x
\* and every object that existed before are as they were.
CopyIsClone ==
  LET x == last.src
      y == last.obj
  IN  /\ IsNew(y) /\ y # x
      /\ heap[y].kind = "rec"
      /\ heap[y].type = last.before[x].type
      /\ \A n \in FieldsOf(heap, y) :
           IF n \in DOMAIN last.overrides
           THEN heap[y].fields[n] = last.overrides[n]
           ELSE IsCopyOf(heap[y].fields[n], last.before[x].fields[n])
      /\ DOMAIN last.overrides = {} => Eq(types, heap, y, x) = "T"
      /\ SubSeq(heap, 1, Len(last.before)) = last.before

\* The last operation was a CopyRecord call whose overrides name fields of
\* the record's type.
CopyCalled ==
  /\ last.op = "copy"
  /\ DOMAIN last.overrides \subseteq FieldsOf(last.before, last.src)

\* C7: for every record instance x, CopyRecord(x, **overrides) returns a
\* new instance of x's type, another object than x, in which each
\* overridden field holds the override itself and each other field a copy
\* of x's value; with no overrides the result is equal to x; every
\* record-valued field, at every depth, is replaced by a clone; and x and
\* the records nested in it are as they were.
C7_CopyRecordReturnsClone == CopyCalled => (Copied /\ CopyIsClone)

\* Every CopyRecord call that returns, returns such a clone.
C7_CopyRecordClones == Copied => CopyIsClone

\* A CopyRecord call that overrides fields only, returns unless the
\* recursion never ends.
C7_FailsOnlyByRecursion ==
  CopyCalled => last.err \in {"ok", "RecursionError"}

\* A record that holds a record, which holds a record in turn, was copied.
C7_Witness ==
  /\ Copied
  /\ DOMAIN last.overrides = {}
  /\ \E n \in FieldsOf(heap, last.src) :
       /\ IsRecordValue(heap, heap[last.src].fields[n])
       /\ \E k \in FieldsOf(heap, heap[last.src].fields[n].v) :
            IsRecordValue(heap, heap[heap[last.src].fields[n].v].fields[k])

\* A record that holds a list and a record was copied.
C7_ListAndRecordCopied ==
  /\ Copied
  /\ \E n, m \in FieldsOf(heap, last.src) :
       /\ IsRecordValue(heap, heap[last.src].fields[n])
       /\ heap[last.src].fields[m].k = "ref"
       /\ heap[heap[last.src].fields[m].v].kind = "list"

\* The last operation restored x's state into y.
Restored == last.op = "restore"

\* C8: x.__getstate__() has exactly one entry per declared field, and
\* restoring it with __setstate__ into another instance y of x's type makes
\* y equal to x and of x's type, and leaves x as it was.
C8_StateRoundTrip ==
  Restored =>
    /\ DOMAIN last.state = Range(types[heap[last.src].type].slots)
    /\ last.err = "ok"
    /\ Eq(types, heap, last.dst, last.src) = "T"
    /\ heap[last.dst].type = heap[last.src].type
    /\ heap[last.src] = last.before[last.src]

\* C8 under Python 2.
C8_HoldsOnPython2 ==
  (Restored /\ python = 2) =>
    /\ DOMAIN last.state = Range(types[heap[last.src].type].slots)
    /\ last.err = "ok"
    /\ Eq(types, heap, last.dst, last.src) = "T"
    /\ heap[last.dst].type = heap[last.src].type
    /\ heap[last.src] = last.before[last.src]

\* C10: CopyRecord(x) returns after finitely many recursive calls, whatever
\* values were written into the fields of x and of the records it reaches.
C10_CopyRecordReturns ==
  (last.op = "copy" /\ DOMAIN last.overrides = {}) => last.err # "RecursionError"

\* Some record reaches itself through record-valued fields.
RECURSIVE Reaches(_, _, _, _)
Reaches(h, x, y, n) ==
  /\ n > 0
  /\ \E f \in FieldsOf(h, x) :
       /\ IsRecordValue(h, h[x].fields[f])
       /\ \/ h[x].fields[f].v = y
          \/ Reaches(h, h[x].fields[f].v, y, n - 1)
OnCycle(h, x) == Reaches(h, x, x, Len(h))

\* CopyRecord fails to return exactly on the records that reach a record on
\* a cycle (or are on one).
C10_ReturnsUnlessCyclic ==
  last.op = "copy" =>
    (last.err = "RecursionError"
       => \E z \in Records(last.before) :
            /\ OnCycle(last.before, z)
            /\ (z = last.src \/ Reaches(last.before, last.src, z, Len(last.before))))

====
